---- MODULE Spec2Model ----
(***************************************************************************)
(* A model of the cups-connector PPD cache (cups/ppdcache.go) and of the   *)
(* printer reconciliation functions (lib/printer.go).                      *)
(*                                                                         *)
(* The cache is modelled as an interleaving of threads, one step per lock  *)
(* acquisition and per access to shared state that is made outside a lock. *)
(* The reconciliation functions are pure and modelled as operators that    *)
(* are applied to inputs drawn from bounded sets.                          *)
(***************************************************************************)
EXTENDS Integers, Sequences, FiniteSets, TLC

VARIABLES
    \* ---- the PPD cache (cups/ppdcache.go) ----
    cache,      \* ppdCache.cache: printer name -> entry (NoEntry: no key)
    pces,       \* the heap of ppdCacheEntry objects ever created
    nextPCE,    \* the next entry createPPDCacheEntry allocates
    wlock,      \* ppdCache.cacheMutex, write mode: the holder or NoThread
    rlocks,     \* ppdCache.cacheMutex, read mode: the set of holders
    emutex,     \* ppdCacheEntry.mutex of every entry: the holder or NoThread
    pending,    \* entries with a "go firstPCE.free()" goroutine not yet run
    doc,        \* the PPD of every printer as CUPS holds it: stamp and body
    pc,         \* every thread's position
    op,         \* every thread's current (or last) operation
    arg,        \* its printername argument
    pce,        \* its local variable pce
    res,        \* what its last getPPDCacheEntry returned
    h,          \* per thread: what happened during its current operation
    nops,       \* operations started and document changes so far
    lastInst,   \* per name: the entry most recently inserted in the map
    crashed,    \* the process died: a fatal error of the Go runtime or of free()
    \* ---- the reconciliation functions (lib/printer.go) ----
    cupsPrinters,   \* DiffPrinters' first argument
    gcpPrinters,    \* DiffPrinters' second argument
    diffOut,        \* what DiffPrinters returned (NotRun before the call)
    pcIn,           \* diffPrinter's argument pc, the local printer
    pgIn,           \* diffPrinter's argument pg, the remote printer
    pairOut,        \* what diffPrinter did (NotRun before the call)
    printers,       \* FilterRawPrinters' argument
    filterOut,      \* what FilterRawPrinters returned
    deviceURI,      \* Tags["device-uri"] of GetHostname's receiver
    hostOut         \* what GetHostname returned

cacheVars == <<cache, pces, nextPCE, wlock, rlocks, emutex, pending, doc,
               pc, op, arg, pce, res, h, nops, lastInst, crashed>>
pairVars == <<pcIn, pgIn, pairOut>>
filterVars == <<printers, filterOut>>
hostVars == <<deviceURI, hostOut>>
diffVars == <<cupsPrinters, gcpPrinters, diffOut, pairVars, filterVars, hostVars>>
vars == <<cacheVars, diffVars>>

----------------------------------------------------------------------------
(* Bounds and universes of the cache model *)

\* Operations started and document changes, together.
MaxOps == 4

Threads == {"t1", "t2"}
Names == {"A"}
NoThread == "none"
NoEntry == 0
PCEs == 1..MaxOps
Bodies == {"ppdX", "ppdY", "bad"}

\* The zero value of (description, manufacturer, model) in a ppdCacheEntry.
NoTriple == [description |-> "", manufacturer |-> "", model |-> ""]
\* lastReturned of an entry no lookup has returned from.
NoRet == [description |-> "-", manufacturer |-> "-", model |-> "-"]

\* translatePPD: nil description, or an empty manufacturer or model, for a
\* document it cannot translate.
translatePPD(body) ==
    CASE body = "ppdX" -> [description |-> "dX", manufacturer |-> "mX", model |-> "modX"]
      [] body = "ppdY" -> [description |-> "dY", manufacturer |-> "mY", model |-> "modY"]
      [] OTHER -> [description |-> "nil", manufacturer |-> "mZ", model |-> ""]

\* refresh's test of translatePPD's result.
ParseFailed(t) ==
    t.description = "nil" \/ t.manufacturer = "" \/ t.model = ""

\* cupsCore.getPPD / cupsGetPPD3: "unchanged" iff the stamp passed in is
\* the document's stamp; otherwise the new document, and the stamp passed
\* by pointer is set to the document's.
getPPDUnchanged(e) == pces[e].modtime = doc[pces[e].name].stamp

\* createPPDCacheEntry: a temporary file exists, modtime is 0, all else empty.
NewPCE(n) ==
    [name |-> n, modtime |-> 0, triple |-> NoTriple, file |-> TRUE,
     freed |-> 0, lastReturned |-> NoRet]

\* A slot of the heap that createPPDCacheEntry has not allocated yet.
BlankPCE ==
    [name |-> "A", modtime |-> 0, triple |-> NoTriple, file |-> FALSE,
     freed |-> 0, lastReturned |-> NoRet]

\* ppdCacheEntry.free: releases the name, removes the file. A second call
\* is a double free; the count stops at 2.
FreedPCE(p) ==
    [p EXCEPT !.freed = IF p.freed < 2 THEN p.freed + 1 ELSE 2, !.file = FALSE]

NoRes == [ok |-> FALSE, triple |-> NoTriple, entry |-> NoEntry]

\* The per-operation record of a thread that has just started.
FreshH(solo) ==
    [path |-> "-", srcFail |-> FALSE, translated |-> FALSE, unchanged |-> FALSE,
     stale |-> FALSE, solo |-> solo, raced |-> FALSE, prev |-> NoRet, snap |-> {}]

\* A thread other than t started: t's operation is no longer alone.
NotSolo(t) == [u \in Threads |-> IF u # t /\ pc[u] # "idle"
                                    THEN [h[u] EXCEPT !.solo = FALSE] ELSE h[u]]

CacheInit ==
    /\ cache = [n \in Names |-> NoEntry]
    /\ pces = [e \in PCEs |-> BlankPCE]
    /\ nextPCE = 1
    /\ wlock = NoThread
    /\ rlocks = {}
    /\ emutex = [e \in PCEs |-> NoThread]
    /\ pending = {}
    /\ doc \in [Names -> [stamp : {1}, body : Bodies]]
    /\ pc = [t \in Threads |-> "idle"]
    /\ op = [t \in Threads |-> "-"]
    /\ arg = [t \in Threads |-> "A"]
    /\ pce = [t \in Threads |-> NoEntry]
    /\ res = [t \in Threads |-> NoRes]
    /\ h = [t \in Threads |-> FreshH(FALSE)]
    /\ nops = 0
    /\ lastInst = [n \in Names |-> NoEntry]
    /\ crashed = FALSE

----------------------------------------------------------------------------
(* ppdCacheEntry.refresh *)

\* refresh without the early return on a cache hit: the document is
\* translated again although the source reported "unchanged".
refreshRetranslates(e, io) ==
    LET p == pces[e]
        d == doc[p.name]
        stamped == [p EXCEPT !.modtime = d.stamp]
        tr == translatePPD(d.body)
    IN  IF io = "geterr"
          THEN [err |-> TRUE, entry |-> p, translated |-> FALSE, unchanged |-> FALSE]
        ELSE IF io = "copyerr" \/ ~p.file
          THEN [err |-> TRUE, entry |-> stamped, translated |-> FALSE,
                unchanged |-> getPPDUnchanged(e)]
        ELSE IF ParseFailed(tr)
          THEN [err |-> TRUE, entry |-> stamped, translated |-> TRUE,
                unchanged |-> getPPDUnchanged(e)]
        ELSE [err |-> FALSE, entry |-> [stamped EXCEPT !.triple = tr],
              translated |-> TRUE, unchanged |-> getPPDUnchanged(e)]

\* The outcome of refresh on entry e. io is what the file system and CUPS
\* do: "ok", "geterr" (getPPD fails) or "copyerr" (opening or copying the
\* document fails). The cache file is opened without O_CREATE, so the copy
\* also fails when the entry's file has been removed.
refresh(e, io) ==
    LET p == pces[e]
        d == doc[p.name]
        stamped == [p EXCEPT !.modtime = d.stamp]
        tr == translatePPD(d.body)
    IN  IF io = "geterr"
          THEN [err |-> TRUE, entry |-> p, translated |-> FALSE, unchanged |-> FALSE]
        ELSE IF getPPDUnchanged(e)
          THEN [err |-> FALSE, entry |-> p, translated |-> FALSE, unchanged |-> TRUE]
        ELSE IF io = "copyerr" \/ ~p.file
          THEN [err |-> TRUE, entry |-> stamped, translated |-> FALSE, unchanged |-> FALSE]
        ELSE IF ParseFailed(tr)
          THEN [err |-> TRUE, entry |-> stamped, translated |-> TRUE, unchanged |-> FALSE]
        ELSE [err |-> FALSE, entry |-> [stamped EXCEPT !.triple = tr],
              translated |-> TRUE, unchanged |-> FALSE]

\* Whether the capability source or the translator fails in that call: the
\* environment's part of the outcome.
SourceFails(e, io) ==
    \/ io = "geterr"
    \/ /\ ~getPPDUnchanged(e)
       /\ (io = "copyerr" \/ ParseFailed(translatePPD(doc[pces[e].name].body)))

\* ppdCacheEntry.getFields
getFields(e) == pces[e].triple

----------------------------------------------------------------------------
(* The operations of ppdCache, step by step *)

OthersIdle(t) == \A u \in Threads \ {t} : pc[u] = "idle"

StartLookup(t, n) ==
    /\ pc[t] = "idle"
    /\ nops < MaxOps
    /\ pc' = [pc EXCEPT ![t] = "g_rlock"]
    /\ op' = [op EXCEPT ![t] = "lookup"]
    /\ arg' = [arg EXCEPT ![t] = n]
    /\ pce' = [pce EXCEPT ![t] = NoEntry]
    /\ res' = [res EXCEPT ![t] = NoRes]
    /\ h' = [NotSolo(t) EXCEPT ![t] = FreshH(OthersIdle(t))]
    /\ nops' = nops + 1
    /\ UNCHANGED <<cache, pces, nextPCE, wlock, rlocks, emutex, pending, doc, lastInst>>

StartRemove(t, n) ==
    /\ pc[t] = "idle"
    /\ nops < MaxOps
    /\ pc' = [pc EXCEPT ![t] = "r_lock"]
    /\ op' = [op EXCEPT ![t] = "remove"]
    /\ arg' = [arg EXCEPT ![t] = n]
    /\ pce' = [pce EXCEPT ![t] = NoEntry]
    /\ res' = [res EXCEPT ![t] = NoRes]
    /\ h' = [NotSolo(t) EXCEPT ![t] = FreshH(OthersIdle(t))]
    /\ nops' = nops + 1
    /\ UNCHANGED <<cache, pces, nextPCE, wlock, rlocks, emutex, pending, doc, lastInst>>

StartQuit(t) ==
    /\ pc[t] = "idle"
    /\ nops < MaxOps
    /\ pc' = [pc EXCEPT ![t] = "q_lock"]
    /\ op' = [op EXCEPT ![t] = "quit"]
    /\ pce' = [pce EXCEPT ![t] = NoEntry]
    /\ res' = [res EXCEPT ![t] = NoRes]
    /\ h' = [NotSolo(t) EXCEPT ![t] = FreshH(OthersIdle(t))]
    /\ nops' = nops + 1
    /\ UNCHANGED <<cache, pces, nextPCE, wlock, rlocks, emutex, pending, doc, arg, lastInst>>

\* getPPDCacheEntry, line 72: pc.cacheMutex.RLock()
GRLock(t) ==
    /\ pc[t] = "g_rlock"
    /\ wlock = NoThread
    /\ rlocks' = rlocks \cup {t}
    /\ pc' = [pc EXCEPT ![t] = "g_read"]
    /\ UNCHANGED <<cache, pces, nextPCE, wlock, emutex, pending, doc, op, arg, pce,
                   res, h, nops, lastInst>>

\* GRead without the RUnlock of line 74.
GReadKeepsRLock(t) ==
    /\ pc[t] = "g_read"
    /\ IF cache[arg[t]] # NoEntry
         THEN /\ pce' = [pce EXCEPT ![t] = cache[arg[t]]]
              /\ h' = [h EXCEPT ![t].path = "hit",
                                ![t].prev = pces[cache[arg[t]]].lastReturned,
                                ![t].raced = pces[cache[arg[t]]].triple
                                                # pces[cache[arg[t]]].lastReturned]
              /\ pc' = [pc EXCEPT ![t] = "g_refresh_lock"]
         ELSE /\ pce' = pce
              /\ h' = [h EXCEPT ![t].path = "miss"]
              /\ pc' = [pc EXCEPT ![t] = "g_create"]
    /\ UNCHANGED <<cache, pces, nextPCE, wlock, rlocks, emutex, pending, doc, op, arg,
                   res, nops, lastInst>>

\* lines 73-76: pce, exists := pc.cache[printername]; RUnlock(); if !exists
GRead(t) ==
    /\ pc[t] = "g_read"
    /\ rlocks' = rlocks \ {t}
    /\ IF cache[arg[t]] # NoEntry
         THEN /\ pce' = [pce EXCEPT ![t] = cache[arg[t]]]
              /\ h' = [h EXCEPT ![t].path = "hit",
                                ![t].prev = pces[cache[arg[t]]].lastReturned,
                                ![t].raced = pces[cache[arg[t]]].triple
                                                # pces[cache[arg[t]]].lastReturned]
              /\ pc' = [pc EXCEPT ![t] = "g_refresh_lock"]
         ELSE /\ pce' = pce
              /\ h' = [h EXCEPT ![t].path = "miss"]
              /\ pc' = [pc EXCEPT ![t] = "g_create"]
    /\ UNCHANGED <<cache, pces, nextPCE, wlock, emutex, pending, doc, op, arg,
                   res, nops, lastInst>>

\* lines 77-80: createPPDCacheEntry, which fails when no temporary file can
\* be created.
GCreate(t) ==
    /\ pc[t] = "g_create"
    /\ \E created \in BOOLEAN :
         IF created
           THEN /\ pces' = [pces EXCEPT ![nextPCE] = NewPCE(arg[t])]
                /\ pce' = [pce EXCEPT ![t] = nextPCE]
                /\ nextPCE' = nextPCE + 1
                /\ pc' = [pc EXCEPT ![t] = "g_refresh_lock"]
                /\ UNCHANGED <<res, h>>
           ELSE /\ pc' = [pc EXCEPT ![t] = "idle"]
                /\ res' = [res EXCEPT ![t] = NoRes]
                /\ h' = [h EXCEPT ![t].srcFail = TRUE]
                /\ UNCHANGED <<pces, pce, nextPCE>>
    /\ UNCHANGED <<cache, wlock, rlocks, emutex, pending, doc, op, arg, nops, lastInst>>

\* refresh, line 162: pce.mutex.Lock()
GRefreshLock(t) ==
    /\ pc[t] = "g_refresh_lock"
    /\ emutex[pce[t]] = NoThread
    /\ emutex' = [emutex EXCEPT ![pce[t]] = t]
    /\ h' = [h EXCEPT ![t].stale = h[t].stale \/ pces[pce[t]].freed > 0]
    /\ pc' = [pc EXCEPT ![t] = "g_refresh"]
    /\ UNCHANGED <<cache, pces, nextPCE, wlock, rlocks, pending, doc, op, arg, pce,
                   res, nops, lastInst>>

\* Thread u is in a lookup that found entry e in the map.
UsesEntry(u, e) ==
    pc[u] \in {"g_refresh_lock", "g_refresh", "g_getfields"} /\ h[u].path = "hit" /\ pce[u] = e

\* refresh, lines 165-211, and the branch on its error at lines 81 and 99
GRefresh(t) ==
    /\ pc[t] = "g_refresh"
    /\ \E io \in {"ok", "geterr", "copyerr"} :
         LET r == refresh(pce[t], io) IN
         /\ pces' = [pces EXCEPT ![pce[t]] = r.entry]
         /\ h' = [u \in Threads |->
                    IF u = t
                      THEN [h[t] EXCEPT !.srcFail = SourceFails(pce[t], io),
                                        !.translated = r.translated,
                                        !.unchanged = r.unchanged]
                    ELSE IF UsesEntry(u, pce[t]) /\ r.entry.triple # pces[pce[t]].triple
                      THEN [h[u] EXCEPT !.raced = TRUE]
                    ELSE h[u]]
         /\ pc' = [pc EXCEPT ![t] =
                     IF h[t].path = "miss"
                       THEN (IF r.err THEN "g_miss_free" ELSE "g_lock")
                       ELSE (IF r.err THEN "g_hit_delete" ELSE "g_getfields")]
    /\ emutex' = [emutex EXCEPT ![pce[t]] = NoThread]
    /\ UNCHANGED <<cache, nextPCE, wlock, rlocks, pending, doc, op, arg, pce, res,
                   nops, lastInst>>

\* lines 82-83: pce.free(); return err
GMissFree(t) ==
    /\ pc[t] = "g_miss_free"
    /\ emutex[pce[t]] = NoThread
    /\ pces' = [pces EXCEPT ![pce[t]] = FreedPCE(pces[pce[t]])]
    /\ res' = [res EXCEPT ![t] = [ok |-> FALSE, triple |-> NoTriple, entry |-> pce[t]]]
    /\ pc' = [pc EXCEPT ![t] = "idle"]
    /\ UNCHANGED <<cache, nextPCE, wlock, rlocks, emutex, pending, doc, op, arg, pce,
                   h, nops, lastInst>>

\* GLock without "go firstPCE.free()": the displaced entry is dropped.
GLockNoFree(t) ==
    /\ pc[t] = "g_lock"
    /\ wlock = NoThread
    /\ rlocks = {}
    /\ wlock' = t
    /\ cache' = [cache EXCEPT ![arg[t]] = NoEntry]
    /\ pc' = [pc EXCEPT ![t] = "g_put"]
    /\ UNCHANGED <<pces, nextPCE, rlocks, emutex, pending, doc, op, arg, pce, res, h,
                   nops, lastInst>>

\* lines 86-93: pc.cacheMutex.Lock(); an entry already installed under the
\* name is deleted from the map and freed by a goroutine.
GLock(t) ==
    /\ pc[t] = "g_lock"
    /\ wlock = NoThread
    /\ rlocks = {}
    /\ wlock' = t
    /\ IF cache[arg[t]] # NoEntry
         THEN /\ cache' = [cache EXCEPT ![arg[t]] = NoEntry]
              /\ pending' = pending \cup {cache[arg[t]]}
         ELSE UNCHANGED <<cache, pending>>
    /\ pc' = [pc EXCEPT ![t] = "g_put"]
    /\ UNCHANGED <<pces, nextPCE, rlocks, emutex, doc, op, arg, pce, res, h, nops,
                   lastInst>>

\* lines 94-96: pc.cache[printername] = pce; getFields; return; the
\* deferred Unlock.
GPut(t) ==
    /\ pc[t] = "g_put"
    /\ emutex[pce[t]] = NoThread
    /\ cache' = [cache EXCEPT ![arg[t]] = pce[t]]
    /\ lastInst' = [lastInst EXCEPT ![arg[t]] = pce[t]]
    /\ res' = [res EXCEPT ![t] = [ok |-> TRUE, triple |-> getFields(pce[t]),
                                  entry |-> pce[t]]]
    /\ pces' = [pces EXCEPT ![pce[t]].lastReturned = getFields(pce[t])]
    /\ wlock' = NoThread
    /\ pc' = [pc EXCEPT ![t] = "idle"]
    /\ UNCHANGED <<nextPCE, rlocks, emutex, pending, doc, op, arg, pce, h, nops>>

\* GHitDelete without the delete: the entry stays in the map.
GHitDeleteSkipped(t) ==
    /\ pc[t] = "g_hit_delete"
    /\ pc' = [pc EXCEPT ![t] = "g_hit_free"]
    /\ UNCHANGED <<cache, pces, nextPCE, wlock, rlocks, emutex, pending, doc, op, arg,
                   pce, res, h, nops, lastInst>>

\* line 100: delete(pc.cache, printername), with no lock held
GHitDelete(t) ==
    /\ pc[t] = "g_hit_delete"
    /\ cache' = [cache EXCEPT ![arg[t]] = NoEntry]
    /\ pc' = [pc EXCEPT ![t] = "g_hit_free"]
    /\ UNCHANGED <<pces, nextPCE, wlock, rlocks, emutex, pending, doc, op, arg, pce,
                   res, h, nops, lastInst>>

\* lines 101-102: pce.free(); return err
GHitFree(t) ==
    /\ pc[t] = "g_hit_free"
    /\ emutex[pce[t]] = NoThread
    /\ pces' = [pces EXCEPT ![pce[t]] = FreedPCE(pces[pce[t]])]
    /\ res' = [res EXCEPT ![t] = [ok |-> FALSE, triple |-> NoTriple, entry |-> pce[t]]]
    /\ pc' = [pc EXCEPT ![t] = "idle"]
    /\ UNCHANGED <<cache, nextPCE, wlock, rlocks, emutex, pending, doc, op, arg, pce,
                   h, nops, lastInst>>

\* lines 104-105: getFields on the entry read from the map; return
GGetFields(t) ==
    /\ pc[t] = "g_getfields"
    /\ emutex[pce[t]] = NoThread
    /\ res' = [res EXCEPT ![t] = [ok |-> TRUE, triple |-> getFields(pce[t]),
                                  entry |-> pce[t]]]
    /\ pces' = [pces EXCEPT ![pce[t]].lastReturned = getFields(pce[t])]
    /\ h' = [h EXCEPT ![t].stale = h[t].stale \/ pces[pce[t]].freed > 0]
    /\ pc' = [pc EXCEPT ![t] = "idle"]
    /\ UNCHANGED <<cache, nextPCE, wlock, rlocks, emutex, pending, doc, op, arg, pce,
                   nops, lastInst>>

\* removePPD, lines 62-65: Lock(); the lookup in the map. With no entry the
\* deferred Unlock runs at once.
RemoveLock(t) ==
    /\ pc[t] = "r_lock"
    /\ wlock = NoThread
    /\ rlocks = {}
    /\ IF cache[arg[t]] # NoEntry
         THEN /\ wlock' = t
              /\ pce' = [pce EXCEPT ![t] = cache[arg[t]]]
              /\ pc' = [pc EXCEPT ![t] = "r_free"]
         ELSE /\ wlock' = wlock
              /\ pce' = pce
              /\ pc' = [pc EXCEPT ![t] = "idle"]
    /\ UNCHANGED <<cache, pces, nextPCE, rlocks, emutex, pending, doc, op, arg, res,
                   h, nops, lastInst>>

\* removePPD, lines 66-67: pce.free(); delete(pc.cache, printername); Unlock
RemoveFree(t) ==
    /\ pc[t] = "r_free"
    /\ emutex[pce[t]] = NoThread
    /\ pces' = [pces EXCEPT ![pce[t]] = FreedPCE(pces[pce[t]])]
    /\ cache' = [cache EXCEPT ![arg[t]] = NoEntry]
    /\ wlock' = NoThread
    /\ pc' = [pc EXCEPT ![t] = "idle"]
    /\ UNCHANGED <<nextPCE, rlocks, emutex, pending, doc, op, arg, pce, res, h, nops,
                   lastInst>>

\* The entries the map holds.
Installed == {cache[n] : n \in Names} \ {NoEntry}

\* quit, line 51: Lock()
QuitLock(t) ==
    /\ pc[t] = "q_lock"
    /\ wlock = NoThread
    /\ rlocks = {}
    /\ wlock' = t
    /\ h' = [h EXCEPT ![t].snap = Installed]
    /\ pc' = [pc EXCEPT ![t] = "q_loop"]
    /\ UNCHANGED <<cache, pces, nextPCE, rlocks, emutex, pending, doc, op, arg, pce,
                   res, nops, lastInst>>

\* quit, lines 54-57: one iteration of the range loop, in map order (any)
QuitFree(t) ==
    /\ pc[t] = "q_loop"
    /\ \E n \in Names :
         /\ cache[n] # NoEntry
         /\ emutex[cache[n]] = NoThread
         /\ pces' = [pces EXCEPT ![cache[n]] = FreedPCE(pces[cache[n]])]
         /\ cache' = [cache EXCEPT ![n] = NoEntry]
    /\ UNCHANGED <<nextPCE, wlock, rlocks, emutex, pending, doc, pc, op, arg, pce,
                   res, h, nops, lastInst>>

\* quit, line 58: the loop is over; the deferred Unlock
QuitReturn(t) ==
    /\ pc[t] = "q_loop"
    /\ Installed = {}
    /\ wlock' = NoThread
    /\ pc' = [pc EXCEPT ![t] = "idle"]
    /\ UNCHANGED <<cache, pces, nextPCE, rlocks, emutex, pending, doc, op, arg, pce,
                   res, h, nops, lastInst>>

\* line 92: the goroutine "go firstPCE.free()"
AsyncFree(e) ==
    /\ e \in pending
    /\ emutex[e] = NoThread
    /\ pces' = [pces EXCEPT ![e] = FreedPCE(pces[e])]
    /\ pending' = pending \ {e}
    /\ UNCHANGED <<cache, nextPCE, wlock, rlocks, emutex, doc, pc, op, arg, pce, res,
                   h, nops, lastInst>>

\* CUPS gets a new PPD for printer n: a new stamp, any body.
DocChange(n) ==
    /\ nops < MaxOps
    /\ \E b \in Bodies : doc' = [doc EXCEPT ![n] = [stamp |-> doc[n].stamp + 1, body |-> b]]
    /\ nops' = nops + 1
    /\ UNCHANGED <<cache, pces, nextPCE, wlock, rlocks, emutex, pending, pc, op, arg,
                   pce, res, h, lastInst>>

----------------------------------------------------------------------------
(* The cache under any interleaving of its operations *)

NotRun == "NotRun"

\* diffPrinter, FilterRawPrinters and GetHostname before they are called.
PairIdle ==
    /\ pcIn = <<>>
    /\ pgIn = <<>>
    /\ pairOut = [status |-> NotRun, diff |-> <<>>]

FilterIdle ==
    /\ printers = <<>>
    /\ filterOut = [status |-> NotRun, notRaw |-> <<>>, raw |-> <<>>]

HostIdle ==
    /\ deviceURI = [present |-> FALSE, value |-> <<>>]
    /\ hostOut = [status |-> NotRun, hostname |-> <<>>, ok |-> FALSE]

Init ==
    /\ CacheInit
    /\ cupsPrinters = <<>>
    /\ gcpPrinters = <<>>
    /\ diffOut = [status |-> NotRun, diffs |-> <<>>]
    /\ PairIdle
    /\ FilterIdle
    /\ HostIdle

\* Every step of the cache is a step of a process that is alive.
Running == ~crashed /\ UNCHANGED <<diffVars, crashed>>

\* The delete at line 100 is made with no lock held. When it overlaps
\* another thread's access to the map (a read, an insert, a delete or the
\* range loop, made under the lock, or another such delete) the Go runtime
\* may stop the process ("concurrent map read and map write", "concurrent
\* map writes"); otherwise the two accesses take effect in either order.
CrashMapRace ==
    /\ ~crashed
    /\ \E t, u \in Threads :
          /\ t # u
          /\ pc[t] = "g_hit_delete"
          /\ pc[u] \in {"g_read", "g_put", "r_free", "q_loop", "g_hit_delete"}
    /\ crashed' = TRUE
    /\ UNCHANGED <<cache, pces, nextPCE, wlock, rlocks, emutex, pending, doc, pc, op,
                   arg, pce, res, h, nops, lastInst>>

\* free() on an entry that is already freed passes a freed pointer to
\* C.free: the C library may abort the process, or not notice.
CrashDoubleFree ==
    /\ ~crashed
    /\ \/ \E t \in Threads : /\ pc[t] \in {"g_miss_free", "g_hit_free", "r_free"}
                             /\ pces[pce[t]].freed >= 1
       \/ \E e \in pending : pces[e].freed >= 1
    /\ crashed' = TRUE
    /\ UNCHANGED <<cache, pces, nextPCE, wlock, rlocks, emutex, pending, doc, pc, op,
                   arg, pce, res, h, nops, lastInst>>

Next ==
    \/ \E t \in Threads, n \in Names : StartLookup(t, n) /\ Running
    \/ \E t \in Threads, n \in Names : StartRemove(t, n) /\ Running
    \/ \E t \in Threads : StartQuit(t) /\ Running
    \/ \E t \in Threads : GRLock(t) /\ Running
    \/ \E t \in Threads : GRead(t) /\ Running
    \/ \E t \in Threads : GCreate(t) /\ Running
    \/ \E t \in Threads : GRefreshLock(t) /\ Running
    \/ \E t \in Threads : GRefresh(t) /\ Running
    \/ \E t \in Threads : GMissFree(t) /\ Running
    \/ \E t \in Threads : GLock(t) /\ Running
    \/ \E t \in Threads : GPut(t) /\ Running
    \/ \E t \in Threads : GHitDelete(t) /\ Running
    \/ \E t \in Threads : GHitFree(t) /\ Running
    \/ \E t \in Threads : GGetFields(t) /\ Running
    \/ \E t \in Threads : RemoveLock(t) /\ Running
    \/ \E t \in Threads : RemoveFree(t) /\ Running
    \/ \E t \in Threads : QuitLock(t) /\ Running
    \/ \E t \in Threads : QuitFree(t) /\ Running
    \/ \E t \in Threads : QuitReturn(t) /\ Running
    \/ \E e \in PCEs : AsyncFree(e) /\ Running
    \/ \E n \in Names : DocChange(n) /\ Running
    \/ CrashMapRace /\ UNCHANGED diffVars
    \/ CrashDoubleFree /\ UNCHANGED diffVars

Spec == Init /\ [][Next]_vars

----------------------------------------------------------------------------
(* Properties of the cache *)

Created == 1..(nextPCE - 1)
Quiescent == (\A t \in Threads : pc[t] = "idle") /\ pending = {}

\* The first two operations on the cold cache were one lookup by each
\* thread, for the same name, both have returned, and neither the
\* capability source nor the translator failed.
TwoLookupsDone ==
    /\ nops = 2
    /\ \A t \in Threads : op[t] = "lookup" /\ pc[t] = "idle" /\ ~h[t].srcFail
    /\ \A t, u \in Threads : arg[t] = arg[u]

\* C1: two concurrent lookups of one uncached name, with the capability
\* source and the translator succeeding (and the document not changing
\* meanwhile), both return successfully with the same (description,
\* manufacturer, model); once both have returned and the asynchronous
\* release has run, the entry inserted last is the one installed under the
\* name and the temporary file of every other entry has been removed.
C1_ConcurrentLookups ==
    TwoLookupsDone =>
        /\ \A t \in Threads : res[t].ok /\ ~ParseFailed(res[t].triple)
        /\ \A t, u \in Threads : res[t].triple = res[u].triple
        /\ pending = {} =>
             \A t \in Threads :
                /\ cache[arg[t]] # NoEntry
                /\ cache[arg[t]] = lastInst[arg[t]]
                /\ \A e \in Created \ {cache[arg[t]]} : ~pces[e].file

\* Both lookups found no entry, one displaced the other's entry, and the
\* goroutine that frees the displaced entry has run.
C1_Witness ==
    /\ TwoLookupsDone
    /\ \A t \in Threads : h[t].path = "miss" /\ res[t].ok
    /\ pending = {}
    /\ \E e \in Created : pces[e].freed = 1 /\ cache[pces[e].name] # e

\* C2: once every operation and goroutine has finished, every temporary
\* file that exists belongs to the entry installed under its name.
C2_NoLeakedFile ==
    Quiescent => \A e \in Created : pces[e].file => cache[pces[e].name] = e

\* C3: no lookup calls refresh on, or reads the fields of, an entry on
\* which free() has been called.
C3_NoUseAfterFree ==
    \A t \in Threads : ~h[t].stale

\* C4: a lookup for which the capability source reports "unchanged" does
\* not invoke the translator, and it returns the triple that the last
\* lookup to return from that entry returned, unless another thread's
\* refresh put a new triple in the entry meanwhile.
C4_Freshness ==
    \A t \in Threads :
        (pc[t] = "idle" /\ op[t] = "lookup" /\ res[t].ok /\ h[t].unchanged)
        => /\ ~h[t].translated
           /\ (h[t].prev # NoRet /\ ~h[t].raced) => res[t].triple = h[t].prev

\* A second lookup returned from the entry a first lookup filled, on
\* "unchanged".
C4_Witness ==
    \E t \in Threads :
        /\ pc[t] = "idle" /\ op[t] = "lookup" /\ res[t].ok
        /\ h[t].unchanged /\ h[t].prev # NoRet /\ ~h[t].raced
        /\ h[t].path = "hit"
        /\ ~ParseFailed(res[t].triple)

\* The step in which a lookup whose refresh failed returns.
FailedLookupReturns(t) ==
    pc[t] \in {"g_miss_free", "g_hit_free"} /\ pc'[t] = "idle"

\* C5: a lookup whose refresh fails returns the error and releases the
\* entry involved, which is not installed afterwards; if no other operation
\* ran meanwhile no entry at all is installed under the name, so the next
\* lookup creates an entry; and a created entry has a zero stamp.
C5_FailedLookupEvicts ==
    [][\A t \in Threads :
          /\ FailedLookupReturns(t) =>
                /\ ~res'[t].ok
                /\ pces'[pce[t]].freed >= 1
                /\ ~pces'[pce[t]].file
                /\ cache'[arg[t]] # pce[t]
                /\ h[t].solo => cache'[arg[t]] = NoEntry
          /\ (pc[t] # "idle" /\ pc'[t] = "idle" /\ op[t] = "lookup" /\ h'[t].srcFail)
                => ~res'[t].ok
          /\ (pc[t] = "g_create" /\ pc'[t] = "g_refresh_lock")
                => /\ cache[arg[t]] = NoEntry \/ ~h[t].solo
                   /\ pces'[pce'[t]].modtime = 0
                   /\ pces'[pce'[t]].triple = NoTriple]_vars

\* A lookup that was alone failed on an entry it found in the map, and a
\* later lookup has created a fresh entry.
C5_Witness ==
    \E t, u \in Threads :
        /\ pc[t] = "idle" /\ op[t] = "lookup" /\ ~res[t].ok
        /\ h[t].path = "hit" /\ h[t].solo
        /\ pces[res[t].entry].freed >= 1
        /\ pc[u] = "g_refresh_lock" /\ h[u].path = "miss"

\* C6: once quit has returned and everything else has finished, every
\* entry that was installed when quit took the lock has been released.
C6_QuitReleasesAll ==
    \A t \in Threads :
        (Quiescent /\ op[t] = "quit") => \A e \in h[t].snap : ~pces[e].file

----------------------------------------------------------------------------
(* lib/printer.go: Printer, PrinterDiff, DiffPrinters, diffPrinter *)

MaxCUPS == 2
MaxGCP == 2

\* PrinterDiffOperation
RegisterPrinter == 0
UpdatePrinter == 1
DeletePrinter == 2
NoChangeToPrinter == 3

\* Strings that are compared with < and > are sequences of byte values.
Str10 == <<49, 46, 48>>      \* "1.0"
Str20 == <<50, 46, 48>>      \* "2.0"
Str100 == <<49, 48, 46, 48>> \* "10.0"

\* Go's a < b on strings: bytewise, a proper prefix is less.
StrLess(a, b) ==
    \E i \in 1..Len(b) :
        /\ i - 1 <= Len(a)
        /\ \A j \in 1..(i - 1) : a[j] = b[j]
        /\ (i > Len(a) \/ a[i] < b[i])

\* Printer.Tags is a map: every key of TagKeys maps to its value or to
\* Absent (the key is not in the map).
TagKeys == {"tagshash", "device-uri", "printer-make-and-model"}
Absent == "<absent>"
HasTag(p, k) == p.Tags[k] # Absent
NoTags == [k \in TagKeys |-> Absent]

\* The snapshots' printers: for each name a printer as the local collector
\* builds it (no GCPID, no semaphore), the same printer as registered, and
\* a registered printer that differs in display name and version and has
\* no tagshash tag.
PrinterNames == {"A", "B"}

LocalPrinter(n) ==
    [GCPID |-> "", Name |-> n, DefaultDisplayName |-> "display1", UUID |-> "uuid",
     Manufacturer |-> "man", Model |-> "model", GCPVersion |-> Str20,
     SetupURL |-> "setup", SupportURL |-> "support", UpdateURL |-> "update",
     ConnectorVersion |-> "cv1", State |-> [Type |-> "IDLE"],
     Description |-> [Copies |-> "c1"], CapsHash |-> "caps1",
     Tags |-> [NoTags EXCEPT !["tagshash"] = "h1"],
     CUPSJobSemaphore |-> "nil"]

RegisteredPrinter(n) ==
    [LocalPrinter(n) EXCEPT !.GCPID = "gcp-id-1", !.CUPSJobSemaphore = "sem1"]

OldPrinter(n) ==
    [LocalPrinter(n) EXCEPT !.GCPID = "gcp-id-2", !.CUPSJobSemaphore = "sem2",
                            !.DefaultDisplayName = "display2", !.GCPVersion = Str10,
                            !.Tags = NoTags]

Printers ==
    UNION {{LocalPrinter(n), RegisteredPrinter(n), OldPrinter(n)} : n \in PrinterNames}

SeqsUpTo(S, k) == UNION {[1..m -> S] : m \in 0..k}

\* The zero value of the twelve flags of a PrinterDiff.
PrinterDiff(operation, printer) ==
    [Operation |-> operation, Printer |-> printer,
     DefaultDisplayNameChanged |-> FALSE, ManufacturerChanged |-> FALSE,
     ModelChanged |-> FALSE, GCPVersionChanged |-> FALSE, SetupURLChanged |-> FALSE,
     SupportURLChanged |-> FALSE, UpdateURLChanged |-> FALSE,
     ConnectorVersionChanged |-> FALSE, StateChanged |-> FALSE,
     DescriptionChanged |-> FALSE, CapsHashChanged |-> FALSE, TagsChanged |-> FALSE]

AnyFlag(d) ==
    \/ d.DefaultDisplayNameChanged \/ d.ManufacturerChanged \/ d.ModelChanged
    \/ d.GCPVersionChanged \/ d.SetupURLChanged \/ d.SupportURLChanged
    \/ d.UpdateURLChanged \/ d.ConnectorVersionChanged \/ d.StateChanged
    \/ d.DescriptionChanged \/ d.CapsHashChanged \/ d.TagsChanged

\* diffPrinterPanics with the comparison of line 168 turned round.
diffPrinterPanicsOnUpgrade(pcups, pgcp) ==
    pgcp.GCPVersion # pcups.GCPVersion /\ StrLess(pgcp.GCPVersion, pcups.GCPVersion)

\* diffPrinter panics: "GCP version cannot be downgraded".
diffPrinterPanics(pcups, pgcp) ==
    pgcp.GCPVersion # pcups.GCPVersion /\ StrLess(pcups.GCPVersion, pgcp.GCPVersion)

\* diffPrinter that sets SetupURLChanged from the support URLs and
\* SupportURLChanged from the setup URLs.
diffPrinterSwapsURLFlags(pcups, pgcp) ==
    LET d == [Operation |-> UpdatePrinter, Printer |-> pcups,
              DefaultDisplayNameChanged |-> pgcp.DefaultDisplayName # pcups.DefaultDisplayName,
              ManufacturerChanged |-> pgcp.Manufacturer # pcups.Manufacturer,
              ModelChanged |-> pgcp.Model # pcups.Model,
              GCPVersionChanged |-> pgcp.GCPVersion # pcups.GCPVersion,
              SetupURLChanged |-> pgcp.SupportURL # pcups.SupportURL,
              SupportURLChanged |-> pgcp.SetupURL # pcups.SetupURL,
              UpdateURLChanged |-> pgcp.UpdateURL # pcups.UpdateURL,
              ConnectorVersionChanged |-> pgcp.ConnectorVersion # pcups.ConnectorVersion,
              StateChanged |-> pgcp.State # pcups.State,
              DescriptionChanged |-> pgcp.Description # pcups.Description,
              CapsHashChanged |-> pgcp.CapsHash # pcups.CapsHash,
              TagsChanged |-> \/ ~HasTag(pgcp, "tagshash")
                              \/ ~HasTag(pcups, "tagshash")
                              \/ pgcp.Tags["tagshash"] # pcups.Tags["tagshash"]]
    IN  IF AnyFlag(d) THEN d ELSE PrinterDiff(NoChangeToPrinter, pgcp)

\* diffPrinter without the test of lines 201-206: it returns the Update
\* also when no flag is set.
diffPrinterAlwaysUpdate(pcups, pgcp) ==
    [Operation |-> UpdatePrinter, Printer |-> pcups,
     DefaultDisplayNameChanged |-> pgcp.DefaultDisplayName # pcups.DefaultDisplayName,
     ManufacturerChanged |-> pgcp.Manufacturer # pcups.Manufacturer,
     ModelChanged |-> pgcp.Model # pcups.Model,
     GCPVersionChanged |-> pgcp.GCPVersion # pcups.GCPVersion,
     SetupURLChanged |-> pgcp.SetupURL # pcups.SetupURL,
     SupportURLChanged |-> pgcp.SupportURL # pcups.SupportURL,
     UpdateURLChanged |-> pgcp.UpdateURL # pcups.UpdateURL,
     ConnectorVersionChanged |-> pgcp.ConnectorVersion # pcups.ConnectorVersion,
     StateChanged |-> pgcp.State # pcups.State,
     DescriptionChanged |-> pgcp.Description # pcups.Description,
     CapsHashChanged |-> pgcp.CapsHash # pcups.CapsHash,
     TagsChanged |-> \/ ~HasTag(pgcp, "tagshash")
                     \/ ~HasTag(pcups, "tagshash")
                     \/ pgcp.Tags["tagshash"] # pcups.Tags["tagshash"]]

\* diffPrinter that compares the two Tags maps instead of their tagshash.
diffPrinterComparesAllTags(pcups, pgcp) ==
    LET d == [Operation |-> UpdatePrinter, Printer |-> pcups,
              DefaultDisplayNameChanged |-> pgcp.DefaultDisplayName # pcups.DefaultDisplayName,
              ManufacturerChanged |-> pgcp.Manufacturer # pcups.Manufacturer,
              ModelChanged |-> pgcp.Model # pcups.Model,
              GCPVersionChanged |-> pgcp.GCPVersion # pcups.GCPVersion,
              SetupURLChanged |-> pgcp.SetupURL # pcups.SetupURL,
              SupportURLChanged |-> pgcp.SupportURL # pcups.SupportURL,
              UpdateURLChanged |-> pgcp.UpdateURL # pcups.UpdateURL,
              ConnectorVersionChanged |-> pgcp.ConnectorVersion # pcups.ConnectorVersion,
              StateChanged |-> pgcp.State # pcups.State,
              DescriptionChanged |-> pgcp.Description # pcups.Description,
              CapsHashChanged |-> pgcp.CapsHash # pcups.CapsHash,
              TagsChanged |-> pgcp.Tags # pcups.Tags]
    IN  IF AnyFlag(d) THEN d ELSE PrinterDiff(NoChangeToPrinter, pgcp)

\* diffPrinter's result when it does not panic.
diffPrinter(pcups, pgcp) ==
    LET d == [Operation |-> UpdatePrinter, Printer |-> pcups,
              DefaultDisplayNameChanged |-> pgcp.DefaultDisplayName # pcups.DefaultDisplayName,
              ManufacturerChanged |-> pgcp.Manufacturer # pcups.Manufacturer,
              ModelChanged |-> pgcp.Model # pcups.Model,
              GCPVersionChanged |-> pgcp.GCPVersion # pcups.GCPVersion,
              SetupURLChanged |-> pgcp.SetupURL # pcups.SetupURL,
              SupportURLChanged |-> pgcp.SupportURL # pcups.SupportURL,
              UpdateURLChanged |-> pgcp.UpdateURL # pcups.UpdateURL,
              ConnectorVersionChanged |-> pgcp.ConnectorVersion # pcups.ConnectorVersion,
              StateChanged |-> pgcp.State # pcups.State,
              DescriptionChanged |-> pgcp.Description # pcups.Description,
              CapsHashChanged |-> pgcp.CapsHash # pcups.CapsHash,
              TagsChanged |-> \/ ~HasTag(pgcp, "tagshash")
                              \/ ~HasTag(pcups, "tagshash")
                              \/ pgcp.Tags["tagshash"] # pcups.Tags["tagshash"]]
    IN  IF AnyFlag(d) THEN d ELSE PrinterDiff(NoChangeToPrinter, pgcp)

\* printerSliceToMapByName: for every name the last printer of that name.
printerSliceToMapByName(s) ==
    [n \in {s[i].Name : i \in DOMAIN s} |->
        s[CHOOSE i \in DOMAIN s :
            s[i].Name = n /\ \A j \in DOMAIN s : s[j].Name = n => j <= i]]

\* DiffPrinters' locals before the loops.
DiffStart ==
    [diffs |-> <<>>, printersConsidered |-> {}, dirty |-> FALSE, panic |-> FALSE]

\* GCPStep that does not record the name of a matched printer in
\* printersConsidered.
GCPStepNoMark(byName, g, st) ==
    IF g.Name \in st.printersConsidered
      THEN [st EXCEPT !.diffs = Append(@, PrinterDiff(DeletePrinter, g)),
                      !.dirty = TRUE]
    ELSE IF g.Name \in DOMAIN byName
      THEN LET cupsPrinter == [byName[g.Name] EXCEPT
                                  !.GCPID = g.GCPID,
                                  !.CUPSJobSemaphore = g.CUPSJobSemaphore]
               diff == diffPrinter(cupsPrinter, g)
           IN  IF diffPrinterPanics(cupsPrinter, g)
                 THEN [st EXCEPT !.panic = TRUE]
                 ELSE [st EXCEPT !.diffs = Append(@, diff),
                                 !.dirty = @ \/ diff.Operation # NoChangeToPrinter]
    ELSE [st EXCEPT !.printersConsidered = @ \cup {g.Name},
                    !.diffs = Append(@, PrinterDiff(DeletePrinter, g)),
                    !.dirty = TRUE]

\* GCPStep that deletes a remote duplicate only when no local printer has
\* its name.
GCPStepKeepsMatchedDup(byName, g, st) ==
    IF g.Name \in DOMAIN byName
      THEN LET cupsPrinter == [byName[g.Name] EXCEPT
                                  !.GCPID = g.GCPID,
                                  !.CUPSJobSemaphore = g.CUPSJobSemaphore]
               diff == diffPrinter(cupsPrinter, g)
           IN  IF diffPrinterPanics(cupsPrinter, g)
                 THEN [st EXCEPT !.panic = TRUE]
                 ELSE [st EXCEPT !.printersConsidered = @ \cup {g.Name},
                                 !.diffs = Append(@, diff),
                                 !.dirty = @ \/ diff.Operation # NoChangeToPrinter]
    ELSE [st EXCEPT !.printersConsidered = @ \cup {g.Name},
                    !.diffs = Append(@, PrinterDiff(DeletePrinter, g)),
                    !.dirty = TRUE]

\* GCPStep without line 117: the semaphore of the remote printer is not
\* copied to the local one.
GCPStepLosesSemaphore(byName, g, st) ==
    IF g.Name \in st.printersConsidered
      THEN [st EXCEPT !.diffs = Append(@, PrinterDiff(DeletePrinter, g)),
                      !.dirty = TRUE]
    ELSE IF g.Name \in DOMAIN byName
      THEN LET cupsPrinter == [byName[g.Name] EXCEPT !.GCPID = g.GCPID]
               diff == diffPrinter(cupsPrinter, g)
           IN  IF diffPrinterPanics(cupsPrinter, g)
                 THEN [st EXCEPT !.panic = TRUE]
                 ELSE [st EXCEPT !.printersConsidered = @ \cup {g.Name},
                                 !.diffs = Append(@, diff),
                                 !.dirty = @ \/ diff.Operation # NoChangeToPrinter]
    ELSE [st EXCEPT !.printersConsidered = @ \cup {g.Name},
                    !.diffs = Append(@, PrinterDiff(DeletePrinter, g)),
                    !.dirty = TRUE]

\* GCPStep that assigns dirty from the diff of the matched printer, so that
\* a NoChange clears it.
GCPStepDirtyFromLast(byName, g, st) ==
    IF g.Name \in st.printersConsidered
      THEN [st EXCEPT !.diffs = Append(@, PrinterDiff(DeletePrinter, g)),
                      !.dirty = TRUE]
    ELSE IF g.Name \in DOMAIN byName
      THEN LET cupsPrinter == [byName[g.Name] EXCEPT
                                  !.GCPID = g.GCPID,
                                  !.CUPSJobSemaphore = g.CUPSJobSemaphore]
               diff == diffPrinter(cupsPrinter, g)
           IN  IF diffPrinterPanics(cupsPrinter, g)
                 THEN [st EXCEPT !.panic = TRUE]
                 ELSE [st EXCEPT !.printersConsidered = @ \cup {g.Name},
                                 !.diffs = Append(@, diff),
                                 !.dirty = diff.Operation # NoChangeToPrinter]
    ELSE [st EXCEPT !.printersConsidered = @ \cup {g.Name},
                    !.diffs = Append(@, PrinterDiff(DeletePrinter, g)),
                    !.dirty = TRUE]

\* One iteration of the loop over gcpPrinters (lines 104-131).
GCPStep(byName, g, st) ==
    IF g.Name \in st.printersConsidered
      THEN [st EXCEPT !.diffs = Append(@, PrinterDiff(DeletePrinter, g)),
                      !.dirty = TRUE]
    ELSE IF g.Name \in DOMAIN byName
      THEN LET cupsPrinter == [byName[g.Name] EXCEPT
                                  !.GCPID = g.GCPID,
                                  !.CUPSJobSemaphore = g.CUPSJobSemaphore]
               diff == diffPrinter(cupsPrinter, g)
           IN  IF diffPrinterPanics(cupsPrinter, g)
                 THEN [st EXCEPT !.panic = TRUE]
                 ELSE [st EXCEPT !.printersConsidered = @ \cup {g.Name},
                                 !.diffs = Append(@, diff),
                                 !.dirty = @ \/ diff.Operation # NoChangeToPrinter]
    ELSE [st EXCEPT !.printersConsidered = @ \cup {g.Name},
                    !.diffs = Append(@, PrinterDiff(DeletePrinter, g)),
                    !.dirty = TRUE]

RECURSIVE GCPLoop(_, _, _, _)
GCPLoop(byName, gcp, i, st) ==
    IF i > Len(gcp) \/ st.panic
      THEN st
      ELSE GCPLoop(byName, gcp, i + 1, GCPStep(byName, gcp[i], st))

\* CUPSStep that puts the Register diff at the front of the slice.
CUPSStepPrepends(c, st) ==
    IF c.Name \notin st.printersConsidered
      THEN [st EXCEPT !.diffs = <<PrinterDiff(RegisterPrinter, c)>> \o @,
                      !.dirty = TRUE]
      ELSE st

\* One iteration of the loop over cupsPrinters (lines 133-138).
CUPSStep(c, st) ==
    IF c.Name \notin st.printersConsidered
      THEN [st EXCEPT !.diffs = Append(@, PrinterDiff(RegisterPrinter, c)),
                      !.dirty = TRUE]
      ELSE st

RECURSIVE CUPSLoop(_, _, _)
CUPSLoop(cups, i, st) ==
    IF i > Len(cups) \/ st.panic
      THEN st
      ELSE CUPSLoop(cups, i + 1, CUPSStep(cups[i], st))

\* DiffPrinters that returns the accumulated slice whether dirty or not.
DiffPrintersIgnoresDirty(cups, gcp) ==
    LET st == CUPSLoop(cups, 1,
                 GCPLoop(printerSliceToMapByName(cups), gcp, 1, DiffStart))
    IN  IF st.panic THEN [status |-> "panic", diffs |-> <<>>]
        ELSE IF st.diffs # <<>> THEN [status |-> "diffs", diffs |-> st.diffs]
        ELSE [status |-> "nil", diffs |-> <<>>]

\* DiffPrinters that leaves the NoChange diffs out of the slice it returns.
DiffPrintersDropsNoChange(cups, gcp) ==
    LET st == CUPSLoop(cups, 1,
                 GCPLoop(printerSliceToMapByName(cups), gcp, 1, DiffStart))
    IN  IF st.panic THEN [status |-> "panic", diffs |-> <<>>]
        ELSE IF st.dirty
          THEN [status |-> "diffs",
                diffs |-> SelectSeq(st.diffs, LAMBDA d : d.Operation # NoChangeToPrinter)]
        ELSE [status |-> "nil", diffs |-> <<>>]

\* DiffPrinters: "panic", "nil", or "diffs" and the slice returned.
DiffPrinters(cups, gcp) ==
    LET st == CUPSLoop(cups, 1,
                 GCPLoop(printerSliceToMapByName(cups), gcp, 1, DiffStart))
    IN  IF st.panic THEN [status |-> "panic", diffs |-> <<>>]
        ELSE IF st.dirty THEN [status |-> "diffs", diffs |-> st.diffs]
        ELSE [status |-> "nil", diffs |-> <<>>]

----------------------------------------------------------------------------
(* DiffPrinters applied to any two snapshots *)

NotRunOut == [status |-> NotRun, diffs |-> <<>>]

InitDiff ==
    /\ CacheInit
    /\ doc = [n \in Names |-> [stamp |-> 1, body |-> "ppdX"]]
    /\ cupsPrinters \in SeqsUpTo(Printers, MaxCUPS)
    /\ gcpPrinters \in SeqsUpTo(Printers, MaxGCP)
    /\ diffOut = NotRunOut
    /\ PairIdle
    /\ FilterIdle
    /\ HostIdle

CallDiffPrinters ==
    /\ diffOut.status = NotRun
    /\ diffOut' = DiffPrinters(cupsPrinters, gcpPrinters)
    /\ UNCHANGED <<cupsPrinters, gcpPrinters, cacheVars, pairVars, filterVars, hostVars>>

NextDiff == CallDiffPrinters

SpecDiff == InitDiff /\ [][NextDiff]_vars

----------------------------------------------------------------------------
(* Properties of DiffPrinters *)

Returned == diffOut.status \in {"nil", "diffs"}
CUPSNames == {cupsPrinters[i].Name : i \in DOMAIN cupsPrinters}
GCPNames == {gcpPrinters[i].Name : i \in DOMAIN gcpPrinters}
FirstGCP(i) == \A j \in 1..(i - 1) : gcpPrinters[j].Name # gcpPrinters[i].Name
NumRecords(s, p) == Cardinality({k \in DOMAIN s : s[k] = p})
NumDiffs(operation, p) ==
    Cardinality({k \in DOMAIN diffOut.diffs :
                    diffOut.diffs[k].Operation = operation /\ diffOut.diffs[k].Printer = p})
NamesDistinct(s) == \A i, j \in DOMAIN s : s[i].Name = s[j].Name => i = j

\* The local record a remote record is matched with: the last of its name.
LastCUPS(n) ==
    cupsPrinters[CHOOSE i \in DOMAIN cupsPrinters :
        /\ cupsPrinters[i].Name = n
        /\ \A j \in (i + 1)..Len(cupsPrinters) : cupsPrinters[j].Name # n]

\* The compared fields of a local and a remote record are all equal.
SameFields(l, r) ==
    /\ l.DefaultDisplayName = r.DefaultDisplayName
    /\ l.Manufacturer = r.Manufacturer /\ l.Model = r.Model
    /\ l.GCPVersion = r.GCPVersion
    /\ l.SetupURL = r.SetupURL /\ l.SupportURL = r.SupportURL
    /\ l.UpdateURL = r.UpdateURL
    /\ l.ConnectorVersion = r.ConnectorVersion
    /\ l.State = r.State /\ l.Description = r.Description
    /\ l.CapsHash = r.CapsHash
    /\ HasTag(l, "tagshash") /\ HasTag(r, "tagshash")
    /\ l.Tags["tagshash"] = r.Tags["tagshash"]

\* C7 as stated: DiffPrinters(S, S) returns nil for every snapshot S.
C7_IdempotentAnySnapshot ==
    (diffOut.status # NotRun /\ cupsPrinters = gcpPrinters) => diffOut.status = "nil"

\* C7, amended: DiffPrinters(S, S) returns nil for every snapshot S in
\* which no two printers share a name and every printer has a "tagshash"
\* tag.
C7_Idempotent ==
    (/\ diffOut.status # NotRun
     /\ cupsPrinters = gcpPrinters
     /\ NamesDistinct(cupsPrinters)
     /\ \A i \in DOMAIN cupsPrinters : HasTag(cupsPrinters[i], "tagshash"))
    => diffOut.status = "nil"

\* DiffPrinters ran on two identical snapshots of two printers.
C7_Witness ==
    /\ diffOut.status = "nil"
    /\ cupsPrinters = gcpPrinters
    /\ Len(cupsPrinters) = 2
    /\ NamesDistinct(cupsPrinters)
    /\ \E i \in DOMAIN cupsPrinters : cupsPrinters[i].GCPID # ""

\* C8: when DiffPrinters returns, every local record whose name no remote
\* record has gets exactly one Register diff, every remote record whose
\* name no local record has gets exactly one Delete diff, no Register
\* carries a name the remote snapshot has, and the first remote record of
\* a name the local snapshot has gets no Delete.
C8_Completeness ==
    Returned =>
      /\ \A i \in DOMAIN cupsPrinters :
            cupsPrinters[i].Name \notin GCPNames =>
               /\ diffOut.status = "diffs"
               /\ NumDiffs(RegisterPrinter, cupsPrinters[i])
                     = NumRecords(cupsPrinters, cupsPrinters[i])
      /\ \A i \in DOMAIN gcpPrinters :
            gcpPrinters[i].Name \notin CUPSNames =>
               /\ diffOut.status = "diffs"
               /\ NumDiffs(DeletePrinter, gcpPrinters[i])
                     = NumRecords(gcpPrinters, gcpPrinters[i])
      /\ \A k \in DOMAIN diffOut.diffs :
            diffOut.diffs[k].Operation = RegisterPrinter =>
               /\ diffOut.diffs[k].Printer.Name \notin GCPNames
               /\ \E i \in DOMAIN cupsPrinters : cupsPrinters[i] = diffOut.diffs[k].Printer
      /\ \A n \in GCPNames \cap CUPSNames :
            Cardinality({k \in DOMAIN diffOut.diffs :
                            /\ diffOut.diffs[k].Operation = DeletePrinter
                            /\ diffOut.diffs[k].Printer.Name = n})
              = IF diffOut.status = "diffs"
                  THEN Cardinality({i \in DOMAIN gcpPrinters : gcpPrinters[i].Name = n}) - 1
                  ELSE 0
      /\ diffOut.status = "diffs" =>
            \A i \in DOMAIN gcpPrinters :
               (FirstGCP(i) /\ gcpPrinters[i].Name \in CUPSNames)
                  => diffOut.diffs[i].Operation # DeletePrinter

\* A printer only in local, a printer only in remote and a matched one.
C8_Witness ==
    /\ diffOut.status = "diffs"
    /\ \E i \in DOMAIN cupsPrinters : cupsPrinters[i].Name \notin GCPNames
    /\ \E i \in DOMAIN gcpPrinters : gcpPrinters[i].Name \notin CUPSNames

\* C9: when DiffPrinters returns, every remote record whose name occurred
\* earlier in the remote snapshot has a Delete diff carrying that record,
\* whatever the local snapshot holds; an Update or NoChange diff belongs
\* to the first remote record of its name.
C9_DuplicateRemote ==
    Returned =>
      /\ \A i \in DOMAIN gcpPrinters :
            ~FirstGCP(i) =>
               /\ diffOut.status = "diffs"
               /\ diffOut.diffs[i] = PrinterDiff(DeletePrinter, gcpPrinters[i])
      /\ \A k \in DOMAIN diffOut.diffs :
            diffOut.diffs[k].Operation \in {UpdatePrinter, NoChangeToPrinter} =>
               /\ k <= Len(gcpPrinters)
               /\ FirstGCP(k)
               /\ diffOut.diffs[k].Printer.Name = gcpPrinters[k].Name

\* A remote duplicate of a name the local snapshot has, with fields equal
\* to the local record's.
C9_Witness ==
    /\ diffOut.status = "diffs"
    /\ \E i \in DOMAIN gcpPrinters :
          /\ ~FirstGCP(i)
          /\ gcpPrinters[i].Name \in CUPSNames
          /\ SameFields(LastCUPS(gcpPrinters[i].Name), gcpPrinters[i])
          /\ diffOut.diffs[i].Operation = DeletePrinter

\* Every diff DiffPrinters computes is NoChange: no remote duplicates, the
\* two snapshots have the same names, and every remote record has the
\* fields of the local record it is matched with.
AllNoChange ==
    /\ NamesDistinct(gcpPrinters)
    /\ GCPNames = CUPSNames
    /\ \A i \in DOMAIN gcpPrinters :
          SameFields(LastCUPS(gcpPrinters[i].Name), gcpPrinters[i])

\* C10: DiffPrinters returns nil exactly when every computed diff is
\* NoChange; otherwise it returns one diff per remote record and per
\* unmatched local record, with a NoChange diff (carrying the remote
\* record) for every matched remote record whose fields are unchanged.
C10_AllOrNothing ==
    Returned =>
      /\ diffOut.status = "nil" <=> AllNoChange
      /\ diffOut.status = "diffs" =>
            /\ Len(diffOut.diffs) = Len(gcpPrinters)
                  + Cardinality({i \in DOMAIN cupsPrinters :
                                    cupsPrinters[i].Name \notin GCPNames})
            /\ \A i \in DOMAIN gcpPrinters :
                  (/\ FirstGCP(i)
                   /\ gcpPrinters[i].Name \in CUPSNames
                   /\ SameFields(LastCUPS(gcpPrinters[i].Name), gcpPrinters[i]))
                  => diffOut.diffs[i] = PrinterDiff(NoChangeToPrinter, gcpPrinters[i])

\* A batch with a NoChange diff beside an Update diff.
C10_Witness ==
    /\ diffOut.status = "diffs"
    /\ \E k \in DOMAIN diffOut.diffs : diffOut.diffs[k].Operation = NoChangeToPrinter
    /\ \E k \in DOMAIN diffOut.diffs : diffOut.diffs[k].Operation = UpdatePrinter

----------------------------------------------------------------------------
(* diffPrinter applied to any name-matched pair *)

\* The fields diffPrinter compares with != or DeepEqual, and the flag of
\* each.
CompareFields ==
    {"DefaultDisplayName", "Manufacturer", "Model", "GCPVersion", "SetupURL",
     "SupportURL", "UpdateURL", "ConnectorVersion", "State", "Description", "CapsHash"}

FlagOf ==
    [DefaultDisplayName |-> "DefaultDisplayNameChanged",
     Manufacturer |-> "ManufacturerChanged", Model |-> "ModelChanged",
     GCPVersion |-> "GCPVersionChanged", SetupURL |-> "SetupURLChanged",
     SupportURL |-> "SupportURLChanged", UpdateURL |-> "UpdateURLChanged",
     ConnectorVersion |-> "ConnectorVersionChanged", State |-> "StateChanged",
     Description |-> "DescriptionChanged", CapsHash |-> "CapsHashChanged"]

\* A second value of every compared field but the version.
OtherValue ==
    [DefaultDisplayName |-> "display2", Manufacturer |-> "man2", Model |-> "model2",
     SetupURL |-> "setup2", SupportURL |-> "support2", UpdateURL |-> "update2",
     ConnectorVersion |-> "cv2", State |-> [Type |-> "STOPPED"],
     Description |-> [Copies |-> "c2"], CapsHash |-> "caps2"]

\* The versions: none, "1.0", "2.0" and "10.0".
Versions == {<<>>, Str10, Str20, Str100}
TagshashValues == {Absent, "h1", "h2"}
\* The local printer's make-and-model tag; the remote printer has none.
MakeModelValues == {Absent, "HP LaserJet"}

\* Printer p with the fields of D set to their second value, version v and
\* tagshash th.
Variant(p, D, v, th) ==
    [f \in DOMAIN p |->
        IF f \in D THEN OtherValue[f]
        ELSE IF f = "GCPVersion" THEN v
        ELSE IF f = "Tags" THEN [p.Tags EXCEPT !["tagshash"] = th]
        ELSE p[f]]

\* The local printer as DiffPrinters passes it to diffPrinter (GCPID and
\* semaphore copied from the remote printer), in every combination of
\* field values.
PairLocals ==
    {[Variant(RegisteredPrinter("A"), D, v, th) EXCEPT
         !.Tags["printer-make-and-model"] = mm] :
        D \in SUBSET DOMAIN OtherValue, v \in Versions, th \in TagshashValues,
        mm \in MakeModelValues}

PairRemotes ==
    {Variant(RegisteredPrinter("A"), {}, v, th) : v \in Versions, th \in TagshashValues}

InitPair ==
    /\ CacheInit
    /\ doc = [n \in Names |-> [stamp |-> 1, body |-> "ppdX"]]
    /\ cupsPrinters = <<>>
    /\ gcpPrinters = <<>>
    /\ diffOut = NotRunOut
    /\ pcIn \in PairLocals
    /\ pgIn \in PairRemotes
    /\ pairOut = [status |-> NotRun, diff |-> <<>>]
    /\ FilterIdle
    /\ HostIdle

\* d := diffPrinter(&pc, &pg): it panics or returns a PrinterDiff.
CallDiffPrinter ==
    /\ pairOut.status = NotRun
    /\ pairOut' = IF diffPrinterPanics(pcIn, pgIn)
                    THEN [status |-> "panic", diff |-> <<>>]
                    ELSE [status |-> "returned", diff |-> diffPrinter(pcIn, pgIn)]
    /\ UNCHANGED <<pcIn, pgIn, cacheVars, cupsPrinters, gcpPrinters, diffOut,
                   filterVars, hostVars>>

NextPair == CallDiffPrinter

SpecPair == InitPair /\ [][NextPair]_vars

----------------------------------------------------------------------------
(* Properties of diffPrinter *)

\* The two printers differ in field f and in nothing else.
DifferOnlyIn(f) ==
    /\ pcIn[f] # pgIn[f]
    /\ \A g \in DOMAIN pcIn \ {f} : pcIn[g] = pgIn[g]

\* The diff is an Update whose only true flag is the flag of f.
UpdateOf(f) ==
    /\ pairOut.status = "returned"
    /\ pairOut.diff.Operation = UpdatePrinter
    /\ \A g \in CompareFields : pairOut.diff[FlagOf[g]] = (g = f)
    /\ ~pairOut.diff.TagsChanged

\* C11 as stated: for two printers that differ in exactly one compared
\* field, diffPrinter returns an Update with only that field's flag true.
C11_OneFieldOneFlagAnyPair ==
    \A f \in CompareFields :
        (pairOut.status # NotRun /\ DifferOnlyIn(f)) => UpdateOf(f)

\* a < b for strings, character by character.
RECURSIVE LexLess(_, _)
LexLess(a, b) ==
    IF b = <<>> THEN FALSE
    ELSE IF a = <<>> THEN TRUE
    ELSE IF Head(a) # Head(b) THEN Head(a) < Head(b)
    ELSE LexLess(Tail(a), Tail(b))

\* C11, amended: for two printers that carry the same tagshash tag and
\* differ in exactly one compared field, diffPrinter returns an Update with
\* only that field's flag true, except that it panics when the field is the
\* version and the local version is less than the remote version.
C11_OneFieldOneFlag ==
    \A f \in CompareFields :
        (pairOut.status # NotRun /\ DifferOnlyIn(f) /\ HasTag(pcIn, "tagshash")) =>
            IF f = "GCPVersion" /\ LexLess(pcIn.GCPVersion, pgIn.GCPVersion)
              THEN pairOut.status = "panic"
              ELSE UpdateOf(f) /\ pairOut.diff.Printer = pcIn

\* diffPrinter ran on two printers that differ in the support URL only.
C11_Witness ==
    /\ DifferOnlyIn("SupportURL")
    /\ HasTag(pcIn, "tagshash")
    /\ pairOut.status = "returned"
    /\ pairOut.diff.SupportURLChanged

\* C12: diffPrinter panics exactly when the local version is less than the
\* remote version, as strings; otherwise it returns an Update or a NoChange
\* whose version flag is true exactly when the two versions differ.
C12_VersionDowngrade ==
    pairOut.status # NotRun =>
      /\ pairOut.status = "panic" <=> LexLess(pcIn.GCPVersion, pgIn.GCPVersion)
      /\ pairOut.status = "returned" =>
            /\ pairOut.diff.Operation \in {UpdatePrinter, NoChangeToPrinter}
            /\ pairOut.diff.GCPVersionChanged = (pcIn.GCPVersion # pgIn.GCPVersion)

\* diffPrinter panicked on local "1.0" and remote "2.0".
C12_Witness ==
    /\ pairOut.status = "panic"
    /\ pcIn.GCPVersion = Str10
    /\ pgIn.GCPVersion = Str20

----------------------------------------------------------------------------
(* FilterRawPrinters applied to any slice of printers *)

MaxPrinters == 3

\* m[k] for a map of strings: the zero value "" when the key is missing.
TagValue(p, k) == IF HasTag(p, k) THEN p.Tags[k] ELSE ""

\* PrinterIsRaw that also takes a printer with no make-and-model for raw.
PrinterIsRawOrUntagged(printer) ==
    TagValue(printer, "printer-make-and-model") \in {"", "Local Raw Printer"}

PrinterIsRaw(printer) ==
    TagValue(printer, "printer-make-and-model") = "Local Raw Printer"

\* One iteration of the loop of lines 217-223.
FilterStep(printer, st) ==
    IF PrinterIsRaw(printer)
      THEN [st EXCEPT !.raw = Append(@, printer)]
      ELSE [st EXCEPT !.notRaw = Append(@, printer)]

RECURSIVE FilterLoop(_, _, _)
FilterLoop(ps, i, st) ==
    IF i > Len(ps) THEN st ELSE FilterLoop(ps, i + 1, FilterStep(ps[i], st))

FilterRawPrinters(ps) ==
    FilterLoop(ps, 1, [status |-> "returned", notRaw |-> <<>>, raw |-> <<>>])

\* The make-and-model tags of the printers filtered: none, the sentinel,
\* the sentinel in lower case, the sentinel with a suffix, the empty string.
MakeModels ==
    {Absent, "Local Raw Printer", "local raw printer", "Local Raw Printer II", ""}

FilterPrinters ==
    {[LocalPrinter(n) EXCEPT !.Tags["printer-make-and-model"] = mm] :
        n \in PrinterNames, mm \in MakeModels}

InitFilter ==
    /\ CacheInit
    /\ doc = [n \in Names |-> [stamp |-> 1, body |-> "ppdX"]]
    /\ cupsPrinters = <<>>
    /\ gcpPrinters = <<>>
    /\ diffOut = NotRunOut
    /\ PairIdle
    /\ printers \in SeqsUpTo(FilterPrinters, MaxPrinters)
    /\ filterOut = [status |-> NotRun, notRaw |-> <<>>, raw |-> <<>>]
    /\ HostIdle

CallFilterRawPrinters ==
    /\ filterOut.status = NotRun
    /\ filterOut' = FilterRawPrinters(printers)
    /\ UNCHANGED <<printers, cacheVars, cupsPrinters, gcpPrinters, diffOut, pairVars,
                   hostVars>>

NextFilter == CallFilterRawPrinters

SpecFilter == InitFilter /\ [][NextFilter]_vars

\* The make-and-model tag is there and is the sentinel, exactly.
HasRawSentinel(p) == p.Tags["printer-make-and-model"] = "Local Raw Printer"

\* C13: the raw output is the input's printers whose make-and-model tag is
\* the sentinel, in input order; the non-raw output is all the others
\* (those without the tag too), in input order; no printer is in both.
C13_FilterPartition ==
    filterOut.status = "returned" =>
      /\ filterOut.raw = SelectSeq(printers, LAMBDA p : HasRawSentinel(p))
      /\ filterOut.notRaw = SelectSeq(printers, LAMBDA p : ~HasRawSentinel(p))
      /\ Len(filterOut.raw) + Len(filterOut.notRaw) = Len(printers)
      /\ \A i \in DOMAIN filterOut.raw, j \in DOMAIN filterOut.notRaw :
            filterOut.raw[i] # filterOut.notRaw[j]

\* A raw printer between a printer without the tag and a printer whose tag
\* is the sentinel in lower case.
C13_Witness ==
    /\ filterOut.status = "returned"
    /\ Len(printers) = 3
    /\ ~HasTag(printers[1], "printer-make-and-model")
    /\ HasRawSentinel(printers[2])
    /\ printers[3].Tags["printer-make-and-model"] = "local raw printer"
    /\ Len(filterOut.raw) = 1
    /\ Len(filterOut.notRaw) = 2

----------------------------------------------------------------------------
(* Printer.GetHostname applied to any device-uri tag *)

\* A string that is matched against rDeviceURIHostname is a sequence of
\* characters.
MaxRest == 3

LowerLetters ==
    {"a", "b", "c", "d", "e", "f", "g", "h", "i", "j", "k", "l", "m",
     "n", "o", "p", "q", "r", "s", "t", "u", "v", "w", "x", "y", "z"}
Digits == {"0", "1", "2", "3", "4", "5", "6", "7", "8", "9"}

\* (?i): a letter matches in either case.
ToLower ==
    [A |-> "a", B |-> "b", C |-> "c", D |-> "d", E |-> "e", F |-> "f", G |-> "g",
     H |-> "h", I |-> "i", J |-> "j", K |-> "k", L |-> "l", M |-> "m", N |-> "n",
     O |-> "o", P |-> "p", Q |-> "q", R |-> "r", S |-> "s", T |-> "t", U |-> "u",
     V |-> "v", W |-> "w", X |-> "x", Y |-> "y", Z |-> "z"]
Fold(c) == IF c \in DOMAIN ToLower THEN ToLower[c] ELSE c

\* The alternatives of (?:socket|http|https|ipp|ipps|lpd).
AcceptedSchemes ==
    {<<"s", "o", "c", "k", "e", "t">>, <<"h", "t", "t", "p">>, <<"h", "t", "t", "p", "s">>,
     <<"i", "p", "p">>, <<"i", "p", "p", "s">>, <<"l", "p", "d">>}

\* u begins with pre, whatever the case of u's letters.
StartsWithFold(u, pre) ==
    /\ Len(u) >= Len(pre)
    /\ \A i \in 1..Len(pre) : Fold(u[i]) = pre[i]

\* [a-z] and [a-z0-9.-] under (?i).
IsLetter(c) == Fold(c) \in LowerLetters
IsHostChar(c) == IsLetter(c) \/ c \in Digits \/ c \in {".", "-"}

\* The longest run of [a-z0-9.-] in u from position i.
RECURSIVE HostRun(_, _)
HostRun(u, i) ==
    IF i <= Len(u) /\ IsHostChar(u[i]) THEN <<u[i]>> \o HostRun(u, i + 1) ELSE <<>>

\* FindStringSubmatch: the submatch of the one group, or no match. At most
\* one alternative is followed by "://" at the start of u.
FindStringSubmatch(u) ==
    LET starts == {sc \in AcceptedSchemes :
                      /\ StartsWithFold(u, sc \o <<":", "/", "/">>)
                      /\ Len(u) > Len(sc) + 3
                      /\ IsLetter(u[Len(sc) + 4])}
    IN  IF starts = {}
          THEN [matched |-> FALSE, group |-> <<>>]
          ELSE [matched |-> TRUE,
                group |-> HostRun(u, Len(CHOOSE sc \in starts : TRUE) + 4)]

\* GetHostname; tag is the two results of the read of Tags["device-uri"].
GetHostname(tag) ==
    IF ~tag.present
      THEN [status |-> "returned", hostname |-> <<>>, ok |-> FALSE]
    ELSE IF FindStringSubmatch(tag.value).matched
      THEN [status |-> "returned", hostname |-> FindStringSubmatch(tag.value).group,
            ok |-> TRUE]
    ELSE [status |-> "returned", hostname |-> <<>>, ok |-> FALSE]

\* The device URIs: three written out, and every scheme of URISchemes
\* followed by "://" or ":/" and by up to MaxRest characters of RestChars.
URIPrinterLocal ==
    <<"i", "p", "p", ":", "/", "/", "p", "r", "i", "n", "t", "e", "r",
      ".", "l", "o", "c", "a", "l", ":", "6", "3", "1", "/", "i", "p",
      "p", "/", "p", "r", "i", "n", "t">>
URIUsb ==
    <<"u", "s", "b", ":", "/", "/", "V", "e", "n", "d", "o", "r", "/",
      "M", "o", "d", "e", "l">>
URISocketIP ==
    <<"s", "o", "c", "k", "e", "t", ":", "/", "/", "1", "9", "2", ".",
      "1", "6", "8", ".", "1", ".", "1", "0", ":", "9", "1", "0", "0">>

URISchemes ==
    AcceptedSchemes \cup {<<"u", "s", "b">>, <<"I", "P", "P">>, <<"x", "i", "p", "p">>}
RestChars == {"p", "P", "1", ".", ":", "/", "@"}

DeviceURIs ==
    {URIPrinterLocal, URIUsb, URISocketIP}
      \cup {sc \o sep \o rest :
              sc \in URISchemes, sep \in {<<":", "/", "/">>, <<":", "/">>},
              rest \in SeqsUpTo(RestChars, MaxRest)}

InitHost ==
    /\ CacheInit
    /\ doc = [n \in Names |-> [stamp |-> 1, body |-> "ppdX"]]
    /\ cupsPrinters = <<>>
    /\ gcpPrinters = <<>>
    /\ diffOut = NotRunOut
    /\ PairIdle
    /\ FilterIdle
    /\ deviceURI \in {[present |-> FALSE, value |-> <<>>]}
                       \cup {[present |-> TRUE, value |-> u] : u \in DeviceURIs}
    /\ hostOut = [status |-> NotRun, hostname |-> <<>>, ok |-> FALSE]

CallGetHostname ==
    /\ hostOut.status = NotRun
    /\ hostOut' = GetHostname(deviceURI)
    /\ UNCHANGED <<deviceURI, cacheVars, cupsPrinters, gcpPrinters, diffOut, pairVars,
                   filterVars>>

NextHost == CallGetHostname

SpecHost == InitHost /\ [][NextHost]_vars

\* The locator starts with an accepted scheme followed by "://".
HasAcceptedScheme(u) ==
    \E sc \in AcceptedSchemes : StartsWithFold(u, sc \o <<":", "/", "/">>)

\* The positions of character c in s.
Positions(s, c) == {i \in DOMAIN s : s[i] = c}
Min(S) == CHOOSE x \in S : \A y \in S : x <= y
Max(S) == CHOOSE x \in S : \A y \in S : x >= y

\* The host component of a locator scheme://[userinfo@]host[:port][/path].
HostComponent(u) ==
    LET start == Min(Positions(u, ":")) + 3
        rest == SubSeq(u, start, Len(u))
        authority == IF Positions(rest, "/") = {} THEN rest
                     ELSE SubSeq(rest, 1, Min(Positions(rest, "/")) - 1)
        hostport == IF Positions(authority, "@") = {} THEN authority
                    ELSE SubSeq(authority, Max(Positions(authority, "@")) + 1,
                                Len(authority))
    IN  IF Positions(hostport, ":") = {} THEN hostport
        ELSE SubSeq(hostport, 1, Min(Positions(hostport, ":")) - 1)

\* C14: GetHostname returns "not found" exactly when the device-uri tag is
\* absent or does not start with an accepted scheme followed by "://", and
\* for every locator with an accepted scheme it returns the locator's host
\* component.
C14_HostnameOfAcceptedScheme ==
    hostOut.status = "returned" =>
      /\ ~hostOut.ok <=> (~deviceURI.present \/ ~HasAcceptedScheme(deviceURI.value))
      /\ hostOut.ok => hostOut.hostname = HostComponent(deviceURI.value)

----------------------------------------------------------------------------
(* DiffPrinters on snapshots with duplicate names *)

\* The diffs of the result that carry name n and are not Deletes.
Winners(n) ==
    {k \in DOMAIN diffOut.diffs :
        /\ diffOut.diffs[k].Printer.Name = n
        /\ diffOut.diffs[k].Operation # DeletePrinter}

\* C15: the result of DiffPrinters holds at most one Register, Update or
\* NoChange per printer name, and a Register or an Update carries the last
\* local record of its name.
C15_OneWinnerPerName ==
    Returned =>
      \A n \in PrinterNames :
         /\ Cardinality(Winners(n)) <= 1
         /\ \A k \in Winners(n) :
               diffOut.diffs[k].Operation \in {RegisterPrinter, UpdatePrinter} =>
                  [diffOut.diffs[k].Printer EXCEPT !.GCPID = "", !.CUPSJobSemaphore = "nil"]
                     = [LastCUPS(n) EXCEPT !.GCPID = "", !.CUPSJobSemaphore = "nil"]

----------------------------------------------------------------------------
(* DiffPrinters on reordered snapshots *)

\* Snapshot s reordered by the permutation q of its positions.
Reordered(s, q) == [i \in DOMAIN s |-> s[q[i]]]

\* q keeps the relative order of the records of s that share a name.
KeepsNameOrder(s, q) ==
    \A i, j \in DOMAIN s :
        (i < j /\ s[q[i]].Name = s[q[j]].Name) => q[i] < q[j]

\* Two outcomes of DiffPrinters are the same: both panic, both are nil, or
\* both are slices holding the same diffs the same number of times.
SameOutcome(a, b) ==
    /\ a.status = b.status
    /\ \A k \in DOMAIN a.diffs :
          Cardinality({i \in DOMAIN a.diffs : a.diffs[i] = a.diffs[k]})
             = Cardinality({i \in DOMAIN b.diffs : b.diffs[i] = a.diffs[k]})
    /\ Len(a.diffs) = Len(b.diffs)

\* C16 as stated: the outcome is the same for any permutation of the local
\* snapshot and any permutation of the remote snapshot that keeps the order
\* of the records sharing a name.
C16_OrderIndependentAnyLocalOrder ==
    diffOut.status # NotRun =>
      \A qc \in Permutations(DOMAIN cupsPrinters), qg \in Permutations(DOMAIN gcpPrinters) :
          KeepsNameOrder(gcpPrinters, qg) =>
             SameOutcome(diffOut, DiffPrinters(Reordered(cupsPrinters, qc),
                                               Reordered(gcpPrinters, qg)))

\* C16, amended: the outcome is the same for any permutations of the local
\* and of the remote snapshot that both keep the order of the records
\* sharing a name.
C16_OrderIndependent ==
    diffOut.status # NotRun =>
      \A qc \in Permutations(DOMAIN cupsPrinters), qg \in Permutations(DOMAIN gcpPrinters) :
          (KeepsNameOrder(cupsPrinters, qc) /\ KeepsNameOrder(gcpPrinters, qg)) =>
             SameOutcome(diffOut, DiffPrinters(Reordered(cupsPrinters, qc),
                                               Reordered(gcpPrinters, qg)))

\* DiffPrinters returned diffs for two local and two remote printers that
\* can be reordered on both sides, one pair changed and one unchanged.
C16_Witness ==
    /\ diffOut.status = "diffs"
    /\ Len(cupsPrinters) = 2 /\ NamesDistinct(cupsPrinters)
    /\ Len(gcpPrinters) = 2 /\ NamesDistinct(gcpPrinters)
    /\ \E k \in DOMAIN diffOut.diffs : diffOut.diffs[k].Operation = NoChangeToPrinter
    /\ \E k \in DOMAIN diffOut.diffs : diffOut.diffs[k].Operation = UpdatePrinter

----------------------------------------------------------------------------
(* Locking discipline of the cache *)

\* Thread t takes the step: its position changes, or it is in quit's loop,
\* which holds the write lock from Lock() to the deferred Unlock().
Steps(t) == pc'[t] # pc[t] \/ (pc' = pc /\ pc[t] = "q_loop" /\ cache' # cache)

\* C17: every step that inserts an entry in the map or removes one is
\* taken by a thread that holds the cache-wide lock in write mode.
C17_MapWritesUnderWriteLock ==
    [][cache' # cache =>
          \E t \in Threads : Steps(t) /\ (wlock = t \/ wlock' = t)]_vars

\* C18: no thread of getPPDCacheEntry or removePPD frees an entry in a step
\* it takes while holding the cache-wide lock.
C18_FreeOutsideLock ==
    [][\A t \in Threads :
          (/\ op[t] \in {"lookup", "remove"}
           /\ pc'[t] # pc[t]
           /\ \E e \in PCEs : pces'[e].freed > pces[e].freed)
          => (wlock # t /\ t \notin rlocks)]_vars

\* C19: a thread inside refresh holds the entry's mutex, no other entry's,
\* and the cache-wide lock in neither mode.
C19_RefreshHoldsOnlyEntryLock ==
    \A t \in Threads :
        pc[t] = "g_refresh" =>
           /\ wlock # t
           /\ t \notin rlocks
           /\ emutex[pce[t]] = t
           /\ \A e \in PCEs \ {pce[t]} : emutex[e] # t

\* A thread is inside refresh while another holds the cache-wide lock in
\* write mode.
C19_Witness ==
    \E t, u \in Threads :
        /\ t # u
        /\ pc[t] = "g_refresh"
        /\ emutex[pce[t]] = t
        /\ wlock = u

\* C20: a step that changes an entry's stored stamp also stores the triple
\* translated from the document of that stamp, with all three parts
\* non-empty.
C20_StampCommittedWithTriple ==
    [][\A e \in PCEs :
          pces'[e].modtime # pces[e].modtime =>
             /\ pces'[e].triple = translatePPD(doc[pces[e].name].body)
             /\ ~ParseFailed(pces'[e].triple)]_vars

----------------------------------------------------------------------------
(* Payloads, flags and order of the diffs DiffPrinters returns *)

\* C21: in a result of DiffPrinters, the diff of the first remote record
\* of a name the local snapshot has is either an Update whose payload is
\* the local record of that name with GCPID and CUPSJobSemaphore, and
\* nothing else, replaced by the remote record's, or a NoChange whose
\* payload is the remote record.
C21_PayloadCarriesRemoteIdentity ==
    diffOut.status = "diffs" =>
      \A i \in DOMAIN gcpPrinters :
         (FirstGCP(i) /\ gcpPrinters[i].Name \in CUPSNames) =>
            \/ /\ diffOut.diffs[i].Operation = UpdatePrinter
               /\ diffOut.diffs[i].Printer =
                     [LastCUPS(gcpPrinters[i].Name) EXCEPT
                         !.GCPID = gcpPrinters[i].GCPID,
                         !.CUPSJobSemaphore = gcpPrinters[i].CUPSJobSemaphore]
            \/ /\ diffOut.diffs[i].Operation = NoChangeToPrinter
               /\ diffOut.diffs[i].Printer = gcpPrinters[i]

\* An Update whose payload got its GCPID and semaphore from the remote
\* record: the local record had neither.
C21_Witness ==
    /\ diffOut.status = "diffs"
    /\ \E i \in DOMAIN gcpPrinters :
          /\ FirstGCP(i)
          /\ gcpPrinters[i].Name \in CUPSNames
          /\ LastCUPS(gcpPrinters[i].Name).GCPID = ""
          /\ LastCUPS(gcpPrinters[i].Name).CUPSJobSemaphore = "nil"
          /\ diffOut.diffs[i].Operation = UpdatePrinter
          /\ diffOut.diffs[i].Printer.GCPID = "gcp-id-2"
          /\ diffOut.diffs[i].Printer.CUPSJobSemaphore = "sem2"

\* C22: the tags flag of a diff that diffPrinter returns is false exactly
\* when both printers have a "tagshash" tag and the two values are equal,
\* whatever the other tags are.
C22_TagsFlagFromTagshash ==
    pairOut.status = "returned" =>
       (~pairOut.diff.TagsChanged
          <=> /\ pcIn.Tags["tagshash"] # Absent
              /\ pgIn.Tags["tagshash"] # Absent
              /\ pcIn.Tags["tagshash"] = pgIn.Tags["tagshash"])

\* An Update without the tags flag for two printers with the same
\* tagshash and different make-and-model tags.
C22_Witness ==
    /\ pairOut.status = "returned"
    /\ pairOut.diff.Operation = UpdatePrinter
    /\ ~pairOut.diff.TagsChanged
    /\ pcIn.Tags["tagshash"] = "h2"
    /\ pcIn.Tags["printer-make-and-model"] # pgIn.Tags["printer-make-and-model"]

\* The twelve change flags of a diff.
ChangeFlags == {FlagOf[f] : f \in CompareFields} \cup {"TagsChanged"}

\* C23: in every diff DiffPrinters returns, a Register, a Delete or a
\* NoChange has all twelve flags false and an Update has at least one
\* flag true.
C23_FlagsOnlyOnUpdate ==
    Returned =>
      \A k \in DOMAIN diffOut.diffs :
         IF diffOut.diffs[k].Operation = UpdatePrinter
           THEN \E fl \in ChangeFlags : diffOut.diffs[k][fl]
           ELSE \A fl \in ChangeFlags : ~diffOut.diffs[k][fl]

\* A result with an Update, a Delete and a Register.
C23_Witness ==
    /\ diffOut.status = "diffs"
    /\ \E k \in DOMAIN diffOut.diffs : diffOut.diffs[k].Operation = UpdatePrinter
    /\ \E k \in DOMAIN diffOut.diffs : diffOut.diffs[k].Operation = DeletePrinter
    /\ \E k \in DOMAIN diffOut.diffs : diffOut.diffs[k].Operation = RegisterPrinter

\* The local records whose name no remote record has, in local order.
Unmatched == SelectSeq(cupsPrinters, LAMBDA c : c.Name \notin GCPNames)

\* C24: a slice that DiffPrinters returns holds, for every remote record
\* in remote order, one Delete, Update or NoChange for that record's name,
\* and after them, for every local record whose name no remote record has
\* in local order, one Register carrying that record.
C24_RemoteThenRegisters ==
    diffOut.status = "diffs" =>
      /\ Len(diffOut.diffs) = Len(gcpPrinters) + Len(Unmatched)
      /\ \A i \in DOMAIN gcpPrinters :
            /\ diffOut.diffs[i].Operation
                  \in {DeletePrinter, UpdatePrinter, NoChangeToPrinter}
            /\ diffOut.diffs[i].Printer.Name = gcpPrinters[i].Name
      /\ \A j \in DOMAIN Unmatched :
            diffOut.diffs[Len(gcpPrinters) + j] = PrinterDiff(RegisterPrinter, Unmatched[j])

\* Two remote records followed by the Registers of two different local
\* records.
C24_Witness ==
    /\ diffOut.status = "diffs"
    /\ Len(gcpPrinters) = 2
    /\ Len(Unmatched) = 2
    /\ Unmatched[1] # Unmatched[2]
    /\ diffOut.diffs[4].Operation = RegisterPrinter

----------------------------------------------------------------------------
(* Release and progress of the cache *)

\* C25: free() is called at most once on every entry.
C25_NoDoubleFree ==
    \A e \in PCEs : pces[e].freed <= 1

\* A step of thread t inside the operation it has started.
ThreadStep(t) ==
    /\ \/ GRLock(t) \/ GRead(t) \/ GCreate(t) \/ GRefreshLock(t) \/ GRefresh(t)
       \/ GMissFree(t) \/ GLock(t) \/ GPut(t) \/ GHitDelete(t) \/ GHitFree(t)
       \/ GGetFields(t) \/ RemoveLock(t) \/ RemoveFree(t) \/ QuitLock(t)
       \/ QuitFree(t) \/ QuitReturn(t)
    /\ Running

\* Every thread and every goroutine is scheduled, every call of the
\* capability source returns, and a thread that can take a lock again and
\* again does take it.
Fairness ==
    /\ \A t \in Threads : SF_vars(ThreadStep(t))
    /\ \A e \in PCEs : WF_vars(AsyncFree(e) /\ Running)

SpecLive == Init /\ [][Next]_vars /\ Fairness

\* Thread t is about to take the cache-wide lock.
WaitsForCacheLock(t) == pc[t] \in {"g_rlock", "g_lock", "r_lock", "q_lock"}

\* C26: no thread waits for the cache-wide lock while it holds an entry's
\* mutex, and every operation a thread has started completes.
C26_DeadlockFree ==
    /\ [](\A t \in Threads :
             WaitsForCacheLock(t) => \A e \in PCEs : emutex[e] # t)
    /\ \A t \in Threads : (pc[t] # "idle") ~> (pc[t] = "idle")

====
